---- MODULE Spec2Model ----
(***************************************************************************)
(* Model of pytext/data/squad_for_bert_tensorizer.py: the SQuAD            *)
(* tensorizers for BERT and RoBERTa and their knowledge-distillation (KD)  *)
(* variants.                                                               *)
(*                                                                         *)
(* Representation of the inputs.  The tokenizer and the vocabulary are     *)
(* external collaborators, so a text field of a row is represented by what *)
(* tokenizer.tokenize gives for it:                                        *)
(*   row.question       sequence of vocabulary ids (its offsets are        *)
(*                      discarded by numberize)                            *)
(*   row.doc            sequence of records [id, start, end]               *)
(*   row.answers        sequence of answer strings, each a sequence of     *)
(*                      characters (only len(answer) is read)              *)
(*   row.answer_starts  sequence of character offsets                      *)
(*   row.present        the KD columns that exist on the row               *)
(*   row.start_logits, row.end_logits, row.pad_mask, row.has_answer_logits *)
(* The id of an ordinary token is none of the vocabulary's special ids.    *)
(*                                                                         *)
(* A definition introduced as "variant" is the definition after it with a  *)
(* plausible slip; the properties are checked not to survive it.           *)
(***************************************************************************)
EXTENDS Integers, Sequences, FiniteSets, TLC

VARIABLES
    cfg,          \* the tensorizer: [kind, max_seq_len, max_subseq_len, pad]
    row,          \* the row of the last numberize call
    out,          \* what the last numberize call returned or raised
    total,        \* self.total
    mismatches,   \* self.mismatches
    calls,        \* history: numberize calls made on the KD instance
    gateFails,    \* history: calls whose sliced start_logits missed len(tokens)
    sl            \* _get_token_logits exercised alone: inputs and both results

vars == <<cfg, row, out, total, mismatches, calls, gateFails, sl>>

----------------------------------------------------------------------------
(* Bounds of the explored inputs.                                          *)

MaxChar == 2
MaxDoc == 2
MaxQ == 1
MaxAns == 2
MaxAnsLen == 2
MaxSeqLen == 6
MaxLogits == 3
MaxCalls == 3

----------------------------------------------------------------------------
(* Program constants and the vocabulary's special ids.                     *)

SPAN_PAD_IDX == -100

BosIdx == 2
EosIdx == 3
WordIdx == 4
SentinelOffset == -1
PadIds == {0, 1}

----------------------------------------------------------------------------
(* Python primitives.                                                      *)

Min(a, b) == IF a <= b THEN a ELSE b
Max(a, b) == IF a >= b THEN a ELSE b

\* s[:k]
PySliceTo(s, k) ==
    LET n == IF k >= 0 THEN Min(k, Len(s)) ELSE Max(Len(s) + k, 0)
    IN  SubSeq(s, 1, n)

\* s[-1] of a non-empty s
PyLast(s) == s[Len(s)]

\* [v] * n
Repeat(v, n) == [i \in 1..n |-> v]

\* a dict as a function on its keys
EmptyDict == [k \in {} |-> 0]
DictPut(m, k, v) == [x \in (DOMAIN m) \cup {k} |-> IF x = k THEN v ELSE m[x]]
DictGet(m, k, default) == IF k \in DOMAIN m THEN m[k] ELSE default

\* list.index(v): the 0-based index of the first v, or -1 for ValueError
RECURSIVE IndexFrom(_, _, _)
IndexFrom(s, v, i) ==
    IF i > Len(s) THEN -1
    ELSE IF s[i] = v THEN i - 1
    ELSE IndexFrom(s, v, i + 1)
PyIndex(s, v) == IndexFrom(s, v, 1)

\* list.count(v)
RECURSIVE PyCount(_, _)
PyCount(s, v) ==
    IF s = <<>> THEN 0
    ELSE (IF Head(s) = v THEN 1 ELSE 0) + PyCount(Tail(s), v)

----------------------------------------------------------------------------
(* The tokenization adapter.                                               *)

\* lookup_tokens(text, bos_token=None, eos_token=eos, max_seq_len=max_len):
\* at most max_len tokens, the appended end marker with its sentinel offsets
\* included.
LookupTokens(text, max_len) ==
    LET kept == PySliceTo(text, max_len - 1)
    IN  [tokens    |-> [i \in 1..Len(kept) |-> kept[i].id] \o <<EosIdx>>,
         start_idx |-> [i \in 1..Len(kept) |-> kept[i].start] \o <<SentinelOffset>>,
         end_idx   |-> [i \in 1..Len(kept) |-> kept[i].end] \o <<SentinelOffset>>]

\* SquadForBERTTensorizer._lookup_tokens
LookupTokensBERT(c, text, seq_len) ==
    LookupTokens(text, (IF seq_len # 0 THEN seq_len ELSE c.max_seq_len) - 1)

\* SquadForRoBERTaTensorizer._lookup_tokens
LookupTokensRoBERTa(c, text, seq_len) ==
    LookupTokens(text, IF seq_len # 0 THEN seq_len ELSE c.max_seq_len)

LookupTokensOf(c, text, seq_len) ==
    IF c.kind = "BERT" THEN LookupTokensBERT(c, text, seq_len)
    ELSE LookupTokensRoBERTa(c, text, seq_len)

\* the question's words carry no offsets of interest
AsText(ids) == [i \in 1..Len(ids) |-> [id |-> ids[i], start |-> 0, end |-> 0]]

----------------------------------------------------------------------------
(* What a numberize call gives: the returned tuple, or the error raised.   *)
(* offset, start_idx and end_idx record the arguments numberize handed to  *)
(* _calculate_answer_indices.                                              *)

Result(status, tokens, segment_labels, starts, ends, offset, start_idx, end_idx) ==
    [status               |-> status,
     tokens               |-> tokens,
     segment_labels       |-> segment_labels,
     seq_len              |-> Len(tokens),
     positions            |-> [i \in 1..Len(tokens) |-> i - 1],
     answer_start_indices |-> starts,
     answer_end_indices   |-> ends,
     start_logits         |-> <<>>,
     end_logits           |-> <<>>,
     has_answer_logits    |-> <<>>,
     offset               |-> offset,
     start_idx            |-> start_idx,
     end_idx              |-> end_idx]

Raised(error) == Result(error, <<>>, <<>>, <<>>, <<>>, 0, <<>>, <<>>)

NoOut == Raised("none")

----------------------------------------------------------------------------
(* SquadForBERTTensorizer._calculate_answer_indices                        *)

\* the dict filled by the loop over enumerate(zip(start_idx[:-1], end_idx[:-1])),
\* after its first n iterations: a later token overwrites an earlier one with
\* the same raw offset
RECURSIVE IdxMap(_, _, _)
IdxMap(keys, offset, n) ==
    IF n = 0 THEN EmptyDict
    ELSE DictPut(IdxMap(keys, offset, n - 1), keys[n], (n - 1) + offset)

\* s back to front
Reverse(s) == [i \in 1..Len(s) |-> s[Len(s) + 1 - i]]

\* variant: the two lists built by prepending, so that the entry of the last
\* answer comes first
CalculateAnswerIndicesPrepended(r, offset, start_idx, end_idx) ==
    LET n == Min(Len(PySliceTo(start_idx, -1)), Len(PySliceTo(end_idx, -1)))
        start_idx_map == IdxMap(start_idx, offset, n)
        end_idx_map == IdxMap(end_idx, offset, n)
        m == Min(Len(r.answer_starts), Len(r.answers))
        answer_start_indices ==
            [i \in 1..Len(r.answer_starts) |->
                DictGet(start_idx_map, r.answer_starts[i], SPAN_PAD_IDX)]
        answer_end_indices ==
            [i \in 1..m |->
                DictGet(end_idx_map, r.answer_starts[i] + Len(r.answers[i]),
                        SPAN_PAD_IDX)]
    IN  IF answer_start_indices = <<>> \/ answer_end_indices = <<>>
        THEN [starts |-> <<SPAN_PAD_IDX>>, ends |-> <<SPAN_PAD_IDX>>]
        ELSE [starts |-> Reverse(answer_start_indices),
              ends |-> Reverse(answer_end_indices)]

\* variant: the [SPAN_PAD_IDX] fallback for a row without answers left out
CalculateAnswerIndicesNoFallback(r, offset, start_idx, end_idx) ==
    LET n == Min(Len(PySliceTo(start_idx, -1)), Len(PySliceTo(end_idx, -1)))
        start_idx_map == IdxMap(start_idx, offset, n)
        end_idx_map == IdxMap(end_idx, offset, n)
        m == Min(Len(r.answer_starts), Len(r.answers))
    IN  [starts |-> [i \in 1..Len(r.answer_starts) |->
                        DictGet(start_idx_map, r.answer_starts[i], SPAN_PAD_IDX)],
         ends   |-> [i \in 1..m |->
                        DictGet(end_idx_map, r.answer_starts[i] + Len(r.answers[i]),
                                SPAN_PAD_IDX)]]

\* variant: the end of an answer looked up in start_idx_map
CalculateAnswerIndicesOneMap(r, offset, start_idx, end_idx) ==
    LET n == Min(Len(PySliceTo(start_idx, -1)), Len(PySliceTo(end_idx, -1)))
        start_idx_map == IdxMap(start_idx, offset, n)
        m == Min(Len(r.answer_starts), Len(r.answers))
        answer_start_indices ==
            [i \in 1..Len(r.answer_starts) |->
                DictGet(start_idx_map, r.answer_starts[i], SPAN_PAD_IDX)]
        answer_end_indices ==
            [i \in 1..m |->
                DictGet(start_idx_map, r.answer_starts[i] + Len(r.answers[i]),
                        SPAN_PAD_IDX)]
    IN  IF answer_start_indices = <<>> \/ answer_end_indices = <<>>
        THEN [starts |-> <<SPAN_PAD_IDX>>, ends |-> <<SPAN_PAD_IDX>>]
        ELSE [starts |-> answer_start_indices, ends |-> answer_end_indices]

CalculateAnswerIndices(r, offset, start_idx, end_idx) ==
    LET n == Min(Len(PySliceTo(start_idx, -1)), Len(PySliceTo(end_idx, -1)))
        start_idx_map == IdxMap(start_idx, offset, n)
        end_idx_map == IdxMap(end_idx, offset, n)
        m == Min(Len(r.answer_starts), Len(r.answers))
        answer_start_indices ==
            [i \in 1..Len(r.answer_starts) |->
                DictGet(start_idx_map, r.answer_starts[i], SPAN_PAD_IDX)]
        answer_end_indices ==
            [i \in 1..m |->
                DictGet(end_idx_map, r.answer_starts[i] + Len(r.answers[i]),
                        SPAN_PAD_IDX)]
    IN  IF answer_start_indices = <<>> \/ answer_end_indices = <<>>
        THEN [starts |-> <<SPAN_PAD_IDX>>, ends |-> <<SPAN_PAD_IDX>>]
        ELSE [starts |-> answer_start_indices, ends |-> answer_end_indices]

----------------------------------------------------------------------------
(* SquadForBERTTensorizer.numberize                                        *)

\* variant: the last token left as the cut left it
RepairTokensSkipped(tokens) == tokens

\* tokens[-1] = self.vocab.get_eos_index()

RepairTokens(tokens) == [tokens EXCEPT ![Len(tokens)] = EosIdx]

\* variant: one retained offset pair too few
AdjustIdxOneShort(c, offset, idx) ==
    PySliceTo(idx, c.max_seq_len - offset - 2) \o <<PyLast(idx)>>

\* idx[: self.max_seq_len - offset - 1] + (idx[-1],)

AdjustIdx(c, offset, idx) ==
    PySliceTo(idx, c.max_seq_len - offset - 1) \o <<PyLast(idx)>>

\* the assert on the two label columns.  Its message is an f-string reading
\* self.answer_column, an attribute no class of the hierarchy sets (the
\* attribute is answers_column): a failing assert raises AttributeError while
\* building the message.
AlignmentGate(r) ==
    IF Len(r.answers) = Len(r.answer_starts) THEN "ok" ELSE "AttributeError"

Numberize(c, r) ==
    LET doc == LookupTokensOf(c, r.doc, c.max_subseq_len)
        question == LookupTokensOf(c, AsText(r.question), c.max_subseq_len)
        question_tokens == <<BosIdx>> \o question.tokens
        offset == Len(question_tokens)
        all_tokens == question_tokens \o doc.tokens
        all_labels == Repeat(0, Len(question_tokens)) \o Repeat(1, Len(doc.tokens))
        cut_tokens == PySliceTo(all_tokens, c.max_seq_len)
        segment_labels == PySliceTo(all_labels, c.max_seq_len)
    IN  IF cut_tokens = <<>> THEN Raised("IndexError")
        ELSE
        LET truncated == PyLast(cut_tokens) # EosIdx
            tokens == IF truncated THEN RepairTokens(cut_tokens) ELSE cut_tokens
            start_idx == IF truncated THEN AdjustIdx(c, offset, doc.start_idx)
                         ELSE doc.start_idx
            end_idx == IF truncated THEN AdjustIdx(c, offset, doc.end_idx)
                       ELSE doc.end_idx
        IN  IF AlignmentGate(r) # "ok" THEN Raised(AlignmentGate(r))
            ELSE
            LET idx == CalculateAnswerIndices(r, offset, start_idx, end_idx)
            IN  Result("ok", tokens, segment_labels, idx.starts, idx.ends,
                       offset, start_idx, end_idx)

----------------------------------------------------------------------------
(* The explored inputs.                                                    *)

SeqsUpTo(S, n) == UNION {[1..k -> S] : k \in 0..n}

\* tokens of a text of MaxChar characters: a token covers [start, end)
TokenSet == {t \in [id : {WordIdx}, start : 0..MaxChar, end : 0..MaxChar] :
                t.start < t.end}

\* tokenized docs: the tokens follow each other in the text
Docs == {d \in SeqsUpTo(TokenSet, MaxDoc) :
            \A i \in 1..(Len(d) - 1) : d[i].end <= d[i + 1].start}

Questions == SeqsUpTo({WordIdx}, MaxQ)

AnswerTexts == {Repeat("a", n) : n \in 1..MaxAnsLen}

KDColumns == {"start_logits", "end_logits", "has_answer_logits", "pad_mask"}

MakeRow(q, d, a, s, present, sLogits, eLogits, mask, hasAnswer) ==
    [question          |-> q,
     doc               |-> d,
     answers           |-> a,
     answer_starts     |-> s,
     present           |-> present,
     start_logits      |-> sLogits,
     end_logits        |-> eLogits,
     pad_mask          |-> mask,
     has_answer_logits |-> hasAnswer]

NoRow == MakeRow(<<>>, <<>>, <<>>, <<>>, {}, <<>>, <<>>, <<>>, <<>>)

\* the label columns of a row, aligned or not
AnswersColumns == SeqsUpTo(AnswerTexts, MaxAns)
AnswerStartsColumns == SeqsUpTo(0..(MaxChar - 1), MaxAns)

\* a row of the base tensorizers
BaseRow(q, d, a, s) == MakeRow(q, d, a, s, {}, <<>>, <<>>, <<>>, <<>>)

Kinds == {"BERT", "RoBERTa"}

\* max_subseq_len = MaxDoc + 1 makes the BERT adapter cut a field of MaxDoc
\* tokens and the RoBERTa adapter leave it whole
Configs == [kind : Kinds, max_seq_len : 0..MaxSeqLen,
            max_subseq_len : {MaxDoc + 1}, pad : {0}]

NoSlice == [logits |-> <<>>, pad_mask |-> <<>>, pad |-> 0,
            bert |-> <<>>, roberta |-> <<>>, done |-> {}]

----------------------------------------------------------------------------
(* Spec: one numberize call of a base tensorizer.                          *)

Init ==
    /\ cfg \in Configs
    /\ row = NoRow
    /\ out = NoOut
    /\ total = 0
    /\ mismatches = 0
    /\ calls = 0
    /\ gateFails = 0
    /\ sl = NoSlice

\* SquadForBERTTensorizer.numberize
NumberizeBERT ==
    /\ cfg.kind = "BERT"
    /\ out.status = "none"
    /\ \E q \in Questions, d \in Docs, a \in AnswersColumns, s \in AnswerStartsColumns :
        /\ row' = BaseRow(q, d, a, s)
        /\ out' = Numberize(cfg, BaseRow(q, d, a, s))
    /\ UNCHANGED <<cfg, total, mismatches, calls, gateFails, sl>>

\* SquadForRoBERTaTensorizer.numberize (inherited, with its own _lookup_tokens)
NumberizeRoBERTa ==
    /\ cfg.kind = "RoBERTa"
    /\ out.status = "none"
    /\ \E q \in Questions, d \in Docs, a \in AnswersColumns, s \in AnswerStartsColumns :
        /\ row' = BaseRow(q, d, a, s)
        /\ out' = Numberize(cfg, BaseRow(q, d, a, s))
    /\ UNCHANGED <<cfg, total, mismatches, calls, gateFails, sl>>

Next == NumberizeBERT \/ NumberizeRoBERTa

Spec == Init /\ [][Next]_vars

----------------------------------------------------------------------------
(* The KD variants.                                                        *)

\* variant: ValueError answered with an empty slice
GetTokenLogitsBERTEmptyIfNoPad(pad, logits, pad_mask) ==
    LET found == PyIndex(pad_mask, pad)
    IN  PySliceTo(logits, IF found >= 0 THEN found ELSE 0)

\* SquadForBERTTensorizerForKD._get_token_logits
GetTokenLogitsBERT(pad, logits, pad_mask) ==
    LET found == PyIndex(pad_mask, pad)
        pad_start == IF found >= 0 THEN found ELSE Len(logits)
    IN  PySliceTo(logits, pad_start)

\* SquadForRoBERTaTensorizerForKD._get_token_logits
GetTokenLogitsRoBERTa(pad, logits, pad_mask) ==
    LET pad_start == PyCount(pad_mask, pad)
    IN  PySliceTo(logits, pad_start)

GetTokenLogits(c, logits, pad_mask) ==
    IF c.kind = "BERT" THEN GetTokenLogitsBERT(c.pad, logits, pad_mask)
    ELSE GetTokenLogitsRoBERTa(c.pad, logits, pad_mask)

\* variant: padding of a fixed size
KDFallbackFixedSize(c, n) ==
    [start |-> Repeat(c.pad, 2), end |-> Repeat(c.pad, 2), has |-> Repeat(c.pad, 2)]

\* the except KeyError branch: padding in place of the teacher's logits
KDFallback(c, n) ==
    [start |-> Repeat(c.pad, n), end |-> Repeat(c.pad, n), has |-> Repeat(c.pad, 2)]

\* the first try block: any of the four columns missing raises KeyError
KDLogits(c, r, n) ==
    IF KDColumns \subseteq r.present
    THEN [start |-> GetTokenLogits(c, r.start_logits, r.pad_mask),
          end   |-> GetTokenLogits(c, r.end_logits, r.pad_mask),
          has   |-> r.has_answer_logits]
    ELSE KDFallback(c, n)

\* variant: the failed gate not counted
CountMismatchSkipped(m) == m

\* self.mismatches += 1

CountMismatch(m) == m + 1

\* numberize of both KD classes after self.total += 1: the result and the
\* value of self.mismatches it leaves
KDNumberize(c, r, m) ==
    LET base == Numberize(c, r)
    IN  IF base.status # "ok" THEN [out |-> base, mismatches |-> m]
        ELSE
        LET lg == KDLogits(c, r, Len(base.tokens))
        IN  IF Len(base.tokens) # Len(lg.start)
            THEN [out |-> Raised("AssertionError"), mismatches |-> CountMismatch(m)]
            ELSE [out |-> [base EXCEPT !.start_logits = lg.start,
                                       !.end_logits = lg.end,
                                       !.has_answer_logits = lg.has],
                  mismatches |-> m]

\* whether the call computes start logits whose length is not len(tokens)
FailsGate(c, r) ==
    LET base == Numberize(c, r)
    IN  /\ base.status = "ok"
        /\ Len(KDLogits(c, r, Len(base.tokens)).start) # Len(base.tokens)

----------------------------------------------------------------------------
(* The explored KD inputs.                                                 *)

StartLogits(n) == [i \in 1..n |-> 10 + i]
EndLogits(n) == [i \in 1..n |-> 20 + i]
HasAnswerLogits == <<31, 32>>

KDLabelColumns == {<<(<<>>), (<<>>)>>, <<(<<Repeat("a", 1)>>), (<<0>>)>>,
                   <<(<<Repeat("a", 1)>>), (<<>>)>>}

\* the docs of the KD rows: empty, or a single one-character token
KDDocs == {<<>>, <<[id |-> WordIdx, start |-> 0, end |-> 1]>>}

\* a column of a row: -1 for a column the row lacks, else its length
ColumnLengths == -1..MaxLogits

\* the pad_mask column: missing, or a mask of 0s and 1s
PadMasks == SeqsUpTo(PadIds, MaxLogits)

\* a row for the KD tensorizers: ns and ne are the lengths of start_logits and
\* end_logits (-1: no such column), hasMask and hasAnswer tell whether
\* pad_mask and has_answer_logits are there
KDRow(d, l, ns, ne, hasMask, mask, hasAnswer) ==
    MakeRow(<<>>, d, l[1], l[2],
            (IF ns >= 0 THEN {"start_logits"} ELSE {})
                \cup (IF ne >= 0 THEN {"end_logits"} ELSE {})
                \cup (IF hasMask THEN {"pad_mask"} ELSE {})
                \cup (IF hasAnswer THEN {"has_answer_logits"} ELSE {}),
            StartLogits(ns), EndLogits(ne),
            IF hasMask THEN mask ELSE <<>>,
            IF hasAnswer THEN HasAnswerLogits ELSE <<>>)

\* the rows of one call: any of the four columns there or missing
KDRows ==
    {KDRow(d, l, ns, ne, TRUE, mask, hasAnswer) :
        d \in KDDocs, l \in KDLabelColumns, ns \in ColumnLengths, ne \in ColumnLengths,
        mask \in PadMasks, hasAnswer \in BOOLEAN}
    \cup
    {KDRow(d, l, ns, ne, FALSE, <<>>, hasAnswer) :
        d \in KDDocs, l \in KDLabelColumns, ns \in ColumnLengths, ne \in ColumnLengths,
        hasAnswer \in BOOLEAN}

\* the rows of a run: the four columns all there or all missing
KDRunRows ==
    {KDRow(<<>>, l, n, n, TRUE, mask, TRUE) :
        l \in KDLabelColumns, n \in {MaxLogits - 1, MaxLogits},
        mask \in SeqsUpTo(PadIds, 1)}
    \cup
    {KDRow(<<>>, l, -1, -1, FALSE, <<>>, FALSE) : l \in KDLabelColumns}

KDConfigs == [kind : Kinds, max_seq_len : 1..(MaxLogits + 1),
              max_subseq_len : {MaxDoc + 2}, pad : PadIds]

----------------------------------------------------------------------------
(* SpecKD: one numberize call of a KD tensorizer.                          *)
(* SpecKDRun: a run of numberize calls on one KD tensorizer.               *)

InitKD ==
    /\ cfg \in KDConfigs
    /\ row = NoRow
    /\ out = NoOut
    /\ total = 0
    /\ mismatches = 0
    /\ calls = 0
    /\ gateFails = 0
    /\ sl = NoSlice

KDCall(r) ==
    /\ row' = r
    /\ total' = total + 1
    /\ out' = KDNumberize(cfg, r, mismatches).out
    /\ mismatches' = KDNumberize(cfg, r, mismatches).mismatches
    /\ calls' = calls + 1
    /\ gateFails' = gateFails + (IF FailsGate(cfg, r) THEN 1 ELSE 0)
    /\ UNCHANGED <<cfg, sl>>

\* SquadForBERTTensorizerForKD.numberize
KDNumberizeBERT ==
    /\ cfg.kind = "BERT"
    /\ calls < 1
    /\ \E r \in KDRows : KDCall(r)

\* SquadForRoBERTaTensorizerForKD.numberize
KDNumberizeRoBERTa ==
    /\ cfg.kind = "RoBERTa"
    /\ calls < 1
    /\ \E r \in KDRows : KDCall(r)

NextKD == KDNumberizeBERT \/ KDNumberizeRoBERTa

SpecKD == InitKD /\ [][NextKD]_vars

\* SquadForBERTTensorizerForKD.numberize, row after row
KDRunBERT ==
    /\ cfg.kind = "BERT"
    /\ calls < MaxCalls
    /\ \E r \in KDRunRows : KDCall(r)

\* SquadForRoBERTaTensorizerForKD.numberize, row after row
KDRunRoBERTa ==
    /\ cfg.kind = "RoBERTa"
    /\ calls < MaxCalls
    /\ \E r \in KDRunRows : KDCall(r)

NextKDRun == KDRunBERT \/ KDRunRoBERTa

SpecKDRun == InitKD /\ [][NextKDRun]_vars

----------------------------------------------------------------------------
(* SpecSlice: _get_token_logits of both KD classes on the same arguments.  *)

InitSlice ==
    /\ cfg \in {c \in KDConfigs : c.kind = "BERT" /\ c.max_seq_len = 1 /\ c.pad = 0}
    /\ row = NoRow
    /\ out = NoOut
    /\ total = 0
    /\ mismatches = 0
    /\ calls = 0
    /\ gateFails = 0
    /\ sl \in [logits : {StartLogits(n) : n \in 0..MaxLogits},
               pad_mask : SeqsUpTo(PadIds, MaxLogits + 1),
               pad : PadIds, bert : {<<>>}, roberta : {<<>>}, done : {{}}]

SliceBERT ==
    /\ "BERT" \notin sl.done
    /\ sl' = [sl EXCEPT !.bert = GetTokenLogitsBERT(sl.pad, sl.logits, sl.pad_mask),
                        !.done = @ \cup {"BERT"}]
    /\ UNCHANGED <<cfg, row, out, total, mismatches, calls, gateFails>>

SliceRoBERTa ==
    /\ "RoBERTa" \notin sl.done
    /\ sl' = [sl EXCEPT !.roberta = GetTokenLogitsRoBERTa(sl.pad, sl.logits, sl.pad_mask),
                        !.done = @ \cup {"RoBERTa"}]
    /\ UNCHANGED <<cfg, row, out, total, mismatches, calls, gateFails>>

NextSlice == SliceBERT \/ SliceRoBERTa

SpecSlice == InitSlice /\ [][NextSlice]_vars

----------------------------------------------------------------------------
(* Vocabulary of the properties.                                           *)

Ok == out.status = "ok"
Called == out.status # "none"
Aligned == Len(row.answers) = Len(row.answer_starts)

\* what the tokenization adapter reports for the doc, end marker last
DocReported == LookupTokensOf(cfg, row.doc, cfg.max_subseq_len)
NumDocTokens == Len(DocReported.tokens) - 1

\* [BOS] + question tokens + context tokens, before max_seq_len cuts it
Untruncated ==
    <<BosIdx>> \o LookupTokensOf(cfg, AsText(row.question), cfg.max_subseq_len).tokens
               \o DocReported.tokens

\* answer i against the offset arrays numberize handed to the re-indexer,
\* the terminal pair left out
StartMatches(i) ==
    \E j \in 1..(Len(out.start_idx) - 1) : out.start_idx[j] = row.answer_starts[i]
EndMatches(i) ==
    \E j \in 1..(Len(out.end_idx) - 1) :
        out.end_idx[j] = row.answer_starts[i] + Len(row.answers[i])

\* answer i against the first n context tokens the adapter reported
StartsAToken(i, n) ==
    \E j \in 1..n : DocReported.start_idx[j] = row.answer_starts[i]
EndsAToken(i, n) ==
    \E j \in 1..n : DocReported.end_idx[j] = row.answer_starts[i] + Len(row.answers[i])

\* the context tokens still ahead of the final end marker
Retained == Min(NumDocTokens, cfg.max_seq_len - out.offset - 1)

IsSpanEntry(e) == e = SPAN_PAD_IDX \/ (0 <= e /\ e < out.seq_len)

----------------------------------------------------------------------------
(* Properties of the base tensorizers, under Spec.                         *)

\* C1: for max_seq_len >= 1, every entry of the returned answer_start_indices
\* and answer_end_indices is SPAN_PAD_IDX or an index into the returned
\* tokens, also when max_seq_len is at most the question token count.
C1_IndicesInRange ==
    (Ok /\ cfg.max_seq_len >= 1) =>
        /\ \A i \in DOMAIN out.answer_start_indices :
                IsSpanEntry(out.answer_start_indices[i])
        /\ \A i \in DOMAIN out.answer_end_indices :
                IsSpanEntry(out.answer_end_indices[i])

\* C2: the returned tokens are at most max_seq_len long, and their last token
\* is the end marker whenever the untruncated concatenation was longer than
\* max_seq_len.
C2_Truncation ==
    Ok => /\ Len(out.tokens) <= cfg.max_seq_len
          /\ (Len(Untruncated) > cfg.max_seq_len => PyLast(out.tokens) = EosIdx)

\* C2 acts: the cut fell on a token that is not the end marker
C2_Witness ==
    /\ Ok
    /\ Len(Untruncated) > cfg.max_seq_len
    /\ Untruncated[cfg.max_seq_len] # EosIdx
    /\ PyLast(out.tokens) = EosIdx

\* C3, as claimed: an answer with a boundary that matches no non-terminal
\* token of the offset arrays gets SPAN_PAD_IDX for both its start and its end.
C3_BothSentinel ==
    Ok => \A i \in 1..Len(row.answers) :
            (~StartMatches(i) \/ ~EndMatches(i)) =>
                /\ out.answer_start_indices[i] = SPAN_PAD_IDX
                /\ out.answer_end_indices[i] = SPAN_PAD_IDX

\* C3, amended: each entry is decided on its own: the start index is
\* SPAN_PAD_IDX when the raw start is no non-terminal token's start offset,
\* the end index is SPAN_PAD_IDX when raw start + len(answer) is no
\* non-terminal token's end offset.
C3_EachSentinel ==
    Ok => \A i \in 1..Len(row.answers) :
            /\ ~StartMatches(i) => out.answer_start_indices[i] = SPAN_PAD_IDX
            /\ ~EndMatches(i) => out.answer_end_indices[i] = SPAN_PAD_IDX

\* C3 acts: a start on a token boundary with an end inside a token
C3_Witness ==
    /\ Ok
    /\ \E i \in 1..Len(row.answers) :
        /\ StartMatches(i) /\ ~EndMatches(i)
        /\ out.answer_start_indices[i] # SPAN_PAD_IDX
        /\ out.answer_end_indices[i] = SPAN_PAD_IDX

\* C4, as claimed: an answer that starts where a context token reported by
\* the adapter starts and ends where one ends gets a non-sentinel start and
\* end, for every max_seq_len (stated here for the lengths above the question
\* token count, so that the refutation owes nothing to the defect of C1).
C4_FoundWhateverTheLength ==
    (Ok /\ cfg.max_seq_len > out.offset) => \A i \in 1..Len(row.answers) :
            (StartsAToken(i, NumDocTokens) /\ EndsAToken(i, NumDocTokens)) =>
                /\ out.answer_start_indices[i] # SPAN_PAD_IDX
                /\ out.answer_end_indices[i] # SPAN_PAD_IDX

\* C4, amended: with max_seq_len above the question token count, an answer
\* that starts where a retained context token starts and ends where a
\* retained context token ends gets a non-sentinel start and end; retained
\* are the context tokens ahead of the final end marker, all of them when
\* nothing is cut and the first max_seq_len - offset - 1 otherwise.
C4_FoundWhenRetained ==
    (Ok /\ cfg.max_seq_len > out.offset) =>
        \A i \in 1..Len(row.answers) :
            (StartsAToken(i, Retained) /\ EndsAToken(i, Retained)) =>
                /\ out.answer_start_indices[i] # SPAN_PAD_IDX
                /\ out.answer_end_indices[i] # SPAN_PAD_IDX

\* C4 acts: the context is cut and an answer on retained tokens is found
C4_Witness ==
    /\ Ok
    /\ cfg.max_seq_len > out.offset
    /\ Retained < NumDocTokens
    /\ \E i \in 1..Len(row.answers) :
        /\ StartsAToken(i, Retained) /\ EndsAToken(i, Retained)
        /\ out.answer_start_indices[i] = out.offset
        /\ out.answer_end_indices[i] = out.offset

\* C5: numberize fails with the alignment assertion exactly on the rows whose
\* answers and answer_starts differ in length.
C5_AlignmentAssertion ==
    (Called /\ cfg.max_seq_len >= 1) =>
        (out.status = "AssertionError" <=> ~Aligned)

\* C10: the two index lists have the same non-zero length.  A row without
\* answers gets the single SPAN_PAD_IDX in each.  A row with answers gets one
\* entry per answer, and entry i is the entry of answer i: it is SPAN_PAD_IDX
\* exactly when no token handed to the re-indexer matches answer i, and it is
\* otherwise the index of a token whose raw offset is that of answer i.
C10_OneEntryPerAnswer ==
    Ok => /\ Len(out.answer_start_indices) = Len(out.answer_end_indices)
          /\ Len(out.answer_start_indices) > 0
          /\ IF Len(row.answers) = 0
             THEN /\ out.answer_start_indices = <<SPAN_PAD_IDX>>
                  /\ out.answer_end_indices = <<SPAN_PAD_IDX>>
             ELSE /\ Len(out.answer_start_indices) = Len(row.answers)
                  /\ \A i \in 1..Len(row.answers) :
                        LET s == out.answer_start_indices[i]
                            e == out.answer_end_indices[i]
                        IN  /\ (s = SPAN_PAD_IDX) <=> ~StartMatches(i)
                            /\ (e = SPAN_PAD_IDX) <=> ~EndMatches(i)
                            /\ s # SPAN_PAD_IDX =>
                                DocReported.start_idx[s - out.offset + 1]
                                    = row.answer_starts[i]
                            /\ e # SPAN_PAD_IDX =>
                                DocReported.end_idx[e - out.offset + 1]
                                    = row.answer_starts[i] + Len(row.answers[i])

\* C10 acts: a row of two answers given against the order of the text, the
\* first on the second context token and the second on the first, both found
\* inside the returned token sequence
C10_Witness ==
    /\ Ok
    /\ out.seq_len > out.offset + 2
    /\ Len(row.answers) = 2 /\ Len(row.answer_starts) = 2
    /\ row.answer_starts[1] > row.answer_starts[2]
    /\ out.answer_start_indices = <<out.offset + 1, out.offset>>
    /\ out.answer_end_indices = <<out.offset + 1, out.offset>>

----------------------------------------------------------------------------
(* Properties of the KD tensorizers, under SpecKD (one call) and SpecKDRun *)
(* (a run of calls).                                                       *)

\* C6: on a well-formed row that lacks any of the pad_mask, start_logits,
\* end_logits and has_answer_logits columns, numberize of both KD classes
\* returns normally with start_logits and end_logits as long as tokens and
\* filled with the pad id, has_answer_logits two pad ids, and mismatches as
\* it was (0 before the call).
C6_FallbackPadding ==
    (calls = 1 /\ Aligned /\ ~(KDColumns \subseteq row.present)) =>
        /\ Ok
        /\ out.tokens # <<>>
        /\ out.start_logits = Repeat(cfg.pad, Len(out.tokens))
        /\ out.end_logits = Repeat(cfg.pad, Len(out.tokens))
        /\ out.has_answer_logits = <<cfg.pad, cfg.pad>>
        /\ mismatches = 0

\* C6 acts: only pad_mask is missing, and the logits on the row would not fit
C6_Witness ==
    /\ calls = 1
    /\ Ok
    /\ row.present = KDColumns \ {"pad_mask"}
    /\ Len(row.start_logits) # Len(out.tokens)
    /\ Len(out.tokens) > 2
    /\ out.start_logits = Repeat(cfg.pad, Len(out.tokens))

\* C9: a KD numberize call that returns normally returns start_logits and
\* end_logits with one value per retained token.
C9_LogitsPerToken ==
    (calls = 1 /\ Ok) =>
        /\ Len(out.start_logits) = Len(out.tokens)
        /\ Len(out.end_logits) = Len(out.tokens)

\* C7: total counts the calls made, those that raised included; mismatches
\* counts the calls whose sliced start_logits length differed from
\* len(tokens), each of which raised; so mismatches <= total.
C7_Counters ==
    /\ total = calls
    /\ mismatches = gateFails
    /\ mismatches <= total
    /\ calls > 0 => (FailsGate(cfg, row) <=> out.status = "AssertionError")

\* C7 acts: a run with a call that failed the gate, a call that passed it and
\* a call that raised before reaching it
C7_Witness ==
    /\ calls = MaxCalls
    /\ total = MaxCalls
    /\ mismatches >= 1
    /\ mismatches < total - 1
    /\ out.status = "AttributeError"

----------------------------------------------------------------------------
(* Properties of _get_token_logits, under SpecSlice.                       *)

PadPositions == {i \in 1..Len(sl.pad_mask) : sl.pad_mask[i] = sl.pad}

\* the index of the first pad marker, len(logits) without one
FirstPad ==
    IF PadPositions = {} THEN Len(sl.logits)
    ELSE (CHOOSE i \in PadPositions : \A j \in PadPositions : i <= j) - 1

Prefix(n) == SubSeq(sl.logits, 1, Min(n, Len(sl.logits)))

\* the pad markers are contiguous and trailing
TrailingPad == \A i \in PadPositions : \A j \in i..Len(sl.pad_mask) : j \in PadPositions

\* C8, as claimed: both classes return logits[:b], b the index of the first
\* pad marker or len(logits) without one, and so agree on a pad_mask whose
\* pad markers are contiguous and trailing.
C8_BothFirstPad ==
    /\ "BERT" \in sl.done => sl.bert = Prefix(FirstPad)
    /\ "RoBERTa" \in sl.done => sl.roberta = Prefix(FirstPad)
    /\ (sl.done = {"BERT", "RoBERTa"} /\ TrailingPad) => sl.bert = sl.roberta

\* C8, amended: the BERT class returns logits[:b], b the index of the first
\* pad marker or len(logits) without one; the RoBERTa class returns
\* logits[:c], c the number of pad markers in pad_mask; they agree whenever
\* b and c cut logits at the same place.
C8_FirstPadAndCount ==
    /\ "BERT" \in sl.done => sl.bert = Prefix(FirstPad)
    /\ "RoBERTa" \in sl.done => sl.roberta = Prefix(Cardinality(PadPositions))
    /\ (/\ sl.done = {"BERT", "RoBERTa"}
        /\ Min(FirstPad, Len(sl.logits)) = Min(Cardinality(PadPositions), Len(sl.logits)))
            => sl.bert = sl.roberta

\* C8 acts: contiguous trailing padding on which the two classes differ
C8_Witness ==
    /\ sl.done = {"BERT", "RoBERTa"}
    /\ PadPositions # {}
    /\ TrailingPad
    /\ Len(sl.pad_mask) = Len(sl.logits)
    /\ sl.bert = Prefix(FirstPad)
    /\ sl.bert # sl.roberta

====
